---- MODULE Spec2Model ----
(***************************************************************************)
(* deps2git: conversion of an SVN based DEPS manifest into .DEPS.git.      *)
(*                                                                         *)
(* Python strings are sequences of tokens (a token is a run of characters  *)
(* that no operation of the program cuts: a path segment, a host name, a   *)
(* separator such as "/" or "@", the suffix ".git").  None is the one      *)
(* token sequence None below, which no string of the inputs contains.      *)
(***************************************************************************)
EXTENDS Integers, Sequences, FiniteSets, TLC

None == <<"<None>">>

(* ------------------------------------------------------------------ *)
(* str operations                                                     *)
(* ------------------------------------------------------------------ *)

\* s.startswith(p)
StartsWith(s, p) == Len(p) <= Len(s) /\ SubSeq(s, 1, Len(p)) = p

\* s.endswith(p)
EndsWith(s, p) ==
    Len(p) <= Len(s) /\ SubSeq(s, Len(s) - Len(p) + 1, Len(s)) = p

\* s.split(sep) for a one-token separator: the list of the pieces
RECURSIVE Split(_, _)
Split(s, sep) ==
    IF \A i \in 1..Len(s) : s[i] # sep
    THEN <<s>>
    ELSE LET i == CHOOSE k \in 1..Len(s) :
                      s[k] = sep /\ \A j \in 1..(k - 1) : s[j] # sep
         IN  <<SubSeq(s, 1, i - 1)>> \o Split(SubSeq(s, i + 1, Len(s)), sep)

\* s.lstrip(c) for a one-token c
RECURSIVE LStrip(_, _)
LStrip(s, c) ==
    IF s # <<>> /\ Head(s) = c THEN LStrip(Tail(s), c) ELSE s

\* s.replace(old, new): every non-overlapping occurrence, left to right
RECURSIVE Replace(_, _, _)
Replace(s, old, new) ==
    IF s = <<>> \/ old = <<>> THEN s
    ELSE IF StartsWith(s, old)
         THEN new \o Replace(SubSeq(s, Len(old) + 1, Len(s)), old, new)
         ELSE <<Head(s)>> \o Replace(Tail(s), old, new)

\* '%s' % v
Str(v) == IF v = None THEN <<"None">> ELSE v

\* not v, for v a string or None
Falsy(v) == v = None \/ v = <<>>

\* '/a/b/c' from its segments
Path(segs) ==
    [i \in 1..(2 * Len(segs)) |-> IF i % 2 = 1 THEN "/" ELSE segs[i \div 2]]

(* ------------------------------------------------------------------ *)
(* re.match: a pattern is a sequence of items, an item is the set of  *)
(* tokens it accepts, and the empty set is a greedy group.  The       *)
(* result is the set holding the tuple of the groups of the greedy    *)
(* match, or the empty set when the pattern does not match a prefix.  *)
(* ------------------------------------------------------------------ *)
RECURSIVE ReMatch(_, _)
ReMatch(pat, s) ==
    IF pat = <<>> THEN {<<>>}
    ELSE IF Head(pat) = {}
    THEN LET rest(k) == ReMatch(Tail(pat), SubSeq(s, k + 1, Len(s)))
             ks == {k \in 0..Len(s) : rest(k) # {}}
         IN  IF ks = {} THEN {}
             ELSE LET k == CHOOSE m \in ks : \A j \in ks : j <= m
                  IN  {<<SubSeq(s, 1, k)>> \o g : g \in rest(k)}
    ELSE IF s # <<>> /\ Head(s) \in Head(pat)
         THEN ReMatch(Tail(pat), Tail(s))
         ELSE {}

Lit(s) == [i \in 1..Len(s) |-> {s[i]}]
Grp == <<{}>>
Group(m, i) == (CHOOSE g \in m : TRUE)[i]

(* ------------------------------------------------------------------ *)
(* svn_to_git_public                                                  *)
(* ------------------------------------------------------------------ *)
GIT_HOST == <<"http://", "git.chromium.org", "/">>

DEPS_OVERRIDES == [p \in {<<"src/third_party/ffmpeg">>} |-> <<"ffmpeg_hash">>]

WebKitSource ==
    <<"http://", "svn.webkit.org">>
        \o Path(<<"repository", "webkit", "trunk", "Source">>)

\* The URL after the first rewrite: the part after http://src.chromium.org/svn
StripSvnHost(svn_url) ==
    LET m == ReMatch(Lit(<<"http://", "src.chromium.org", "/", "svn">>)
                        \o <<{"/"}>> \o Grp, svn_url)
    IN  IF m # {} THEN <<"/">> \o Group(m, 1) ELSE svn_url

\* The rule set: None is <<>>, a match is the tuple (path, git url)
SvnUrlToGitUrl(path, url) ==
    LET svn_url == StripSvnHost(url)
        sf == ReMatch(<<{"htt://", "http://"}>> \o Grp
                  \o Lit(<<".svn.sourceforge.net", "/", "svnroot", "/">>) \o Grp
                  \o Lit(<<"/", "trunk">>) \o Grp, svn_url)
        gt == ReMatch(<<{"htt://", "http://"}>> \o Grp
                  \o Lit(<<".googlecode.com", "/", "svn", "/", "trunk">>) \o Grp,
                  svn_url)
        gb == ReMatch(Lit(<<"http://">>) \o Grp
                  \o Lit(<<".googlecode.com", "/", "svn", "/", "branches", "/">>)
                  \o Grp, svn_url)
        nc == ReMatch(Lit(<<"http://", "src.chromium.org">>
                  \o Path(<<"native_client", "trunk">>) \o <<"/">>) \o Grp, svn_url)
        st == ReMatch(Lit(<<"/", "trunk", "/">>) \o <<{"src", "tools"}, {"/"}>>
                  \o Grp, svn_url)
        tp == ReMatch(Lit(Path(<<"trunk", "deps", "third_party">>) \o <<"/">>)
                  \o Grp, svn_url)
        rb == ReMatch(Lit(Path(<<"trunk", "deps", "reference_builds">>) \o <<"/">>)
                  \o Grp, svn_url)
        git == <<".git">>
    IN
    IF svn_url = Path(<<"trunk", "deps", "page_cycler", "acid3">>)
    THEN <<path, GIT_HOST \o <<"chromium", "/", "deps", "/", "acid3">> \o git>>
    ELSE IF svn_url = Path(<<"trunk", "deps", "canvas_bench">>)
    THEN <<path, GIT_HOST \o <<"chromium", "/", "canvas_bench">> \o git>>
    ELSE IF svn_url = Path(<<"trunk", "deps", "gpu", "software_rendering_list">>)
    THEN <<path, GIT_HOST \o <<"chromium", "/", "deps", "/", "gpu", "/",
                               "software_rendering_list">> \o git>>
    ELSE IF svn_url = Path(<<"trunk", "tools", "third_party", "python_26">>)
    THEN <<path, GIT_HOST \o <<"chromium", "/", "deps", "/", "python_26">> \o git>>
    ELSE IF svn_url = Path(<<"trunk", "deps", "support">>)
    THEN <<path, GIT_HOST \o <<"chromium", "/", "support">> \o git>>
    ELSE IF svn_url = Path(<<"trunk", "deps", "frame_rate", "content">>)
    THEN <<path, GIT_HOST \o <<"chromium", "/", "frame_rate", "/", "content">> \o git>>
    ELSE IF svn_url = <<"svn://", "svn.chromium.org">>
                          \o Path(<<"jsoncpp", "trunk", "jsoncpp">>)
    THEN <<path, GIT_HOST \o <<"external", "/", "jsoncpp", "/", "jsoncpp">> \o git>>
    ELSE IF svn_url = Path(<<"trunk", "deps", "third_party", "ffmpeg">>)
    THEN <<path, GIT_HOST \o <<"chromium", "/", "third_party", "/", "ffmpeg">> \o git>>
    ELSE IF svn_url = <<"http://", "webrtc", ".googlecode.com">>
                          \o Path(<<"svn", "stable", "src">>)
    THEN <<path, GIT_HOST \o <<"external", "/", "webrtc", "/", "stable", "/", "src">>
                 \o git>>
    ELSE IF svn_url \in {<<"http://", "selenium", ".googlecode.com">>
                             \o Path(<<"svn", "trunk", "py", "test">>),
                         Path(<<"trunk", "deps", "reference_builds", "chrome">>)}
    THEN <<None, None>>
    ELSE IF sf # {}
    THEN <<path, GIT_HOST \o <<"external", "/">> \o Group(sf, 2) \o Group(sf, 3) \o git>>
    ELSE IF gt # {}
    THEN <<path, GIT_HOST \o <<"external", "/">> \o Group(gt, 1) \o Group(gt, 2) \o git>>
    ELSE IF gb # {}
    THEN <<path, GIT_HOST \o <<"external", "/">> \o Group(gb, 1) \o <<"/">>
                 \o Group(gb, 2) \o git>>
    ELSE IF nc # {}
    THEN <<path, GIT_HOST \o <<"native_client", "/">> \o Group(nc, 1) \o git>>
    ELSE IF st # {}
    THEN <<path, GIT_HOST \o <<"chromium", "/">>
                 \o SubSeq(svn_url, 4, Len(svn_url)) \o git>>
    ELSE IF svn_url = WebKitSource
    THEN <<<<"src/third_party/WebKit">>,
           GIT_HOST \o <<"external", "/", "WebKit_trimmed">> \o git>>
    ELSE IF svn_url = WebKitSource \o Path(<<"WebKit", "chromium", "public">>)
    THEN <<path, GIT_HOST \o <<"external">>
                 \o Path(<<"WebKit", "Source", "WebKit", "chromium", "public">>) \o git>>
    ELSE IF svn_url = WebKitSource \o Path(<<"Platform", "chromium", "public">>)
    THEN <<path, GIT_HOST \o <<"external">>
                 \o Path(<<"WebKit", "Source", "Platform", "chromium", "public">>) \o git>>
    ELSE IF svn_url = Path(<<"trunk", "deps", "third_party", "WebKit">>)
    THEN <<None, None>>
    ELSE IF StartsWith(svn_url, <<"http://", "svn.webkit.org">>)
    THEN <<None, None>>
    ELSE IF tp # {}
    THEN <<path, GIT_HOST \o <<"chromium", "/", "deps", "/">> \o Group(tp, 1) \o git>>
    ELSE IF rb # {}
    THEN <<path, GIT_HOST \o <<"chromium", "/", "reference_builds", "/">>
                 \o Group(rb, 1) \o git>>
    ELSE <<>>

(* ------------------------------------------------------------------ *)
(* deps2git.SplitScmUrl                                               *)
(* ------------------------------------------------------------------ *)
SplitScmUrl(url) ==
    LET url_split == Split(url, "@")
    IN  <<url_split[1],
          IF Len(url_split) = 2 THEN url_split[2] ELSE <<"HEAD">>>>

\* The revision marker of a location that names no revision
HEAD == <<"HEAD">>

(* ------------------------------------------------------------------ *)
(* The inputs of a run: the DEPS file, the options and the rule file  *)
(* given with -x, drawn from the bounded sets below.                  *)
(* ------------------------------------------------------------------ *)
MaxDeps == 2      \* entries of the 'deps' section
MaxOsDeps == 1    \* entries of an OS section

Foo == <<"src/foo">>
Bar == <<"src/bar">>
FfmpegPath == <<"src/third_party/ffmpeg">>
WebKitPath == <<"src/third_party/WebKit">>
AnglePath == <<"src/third_party/angle">>

LibFoo == Path(<<"trunk", "deps", "third_party", "libfoo">>)
Ffmpeg == Path(<<"trunk", "deps", "third_party", "ffmpeg">>)
RefChrome == Path(<<"trunk", "deps", "reference_builds", "chrome">>)
Unknown == <<"svn://", "example.org", "/", "unknown">>
RepoGit == <<"https://", "example.com", "/", "repo", ".git">>
UserGit == <<"ssh://", "git", "@", "example.com", "/", "repo", ".git">>

At(url, rev) == url \o <<"@">> \o rev

\* The (path, location) pairs a section is made of
Menu ==
    { <<Foo, None>>, <<Foo, At(LibFoo, <<"1234">>)>>, <<Foo, At(Unknown, <<"1">>)>>,
      <<Foo, RefChrome>>, <<Foo, At(RepoGit, <<"deadbeef">>)>>, <<Foo, RepoGit>>,
      <<Foo, UserGit>>,
      <<Bar, At(LibFoo, <<"1234">>)>>, <<Bar, WebKitSource>>,
      <<FfmpegPath, At(Ffmpeg, <<"500">>)>>,
      <<WebKitPath, RepoGit>>, <<WebKitPath, At(WebKitSource, <<"1234">>)>>,
      <<AnglePath, RepoGit>>, <<AnglePath, At(RepoGit, <<"deadbeef">>)>> }

OsMenu ==
    { <<Foo, At(Unknown, <<"1">>)>>, <<Foo, At(RepoGit, <<"deadbeef">>)>>,
      <<Bar, At(LibFoo, <<"1234">>)>> }

\* The dictionaries with at most n entries of the menu m
Sections(m, n) ==
    LET paths == {e[1] : e \in m}
    IN  UNION { { f \in [ps -> {e[2] : e \in m}] : \A p \in ps : <<p, f[p]>> \in m }
                : ps \in {q \in SUBSET paths : Cardinality(q) <= n} }

\* The rule files given with -x: each a SvnUrlToGitUrl and a DEPS_OVERRIDES
EXT_HOST == <<"https://", "git.example.org", "/">>
OTHER_HOST == <<"https://", "mirror.example.org", "/">>

ExtraRules(rules, path, url) ==
    IF rules = "rules_a"
    THEN IF url = LibFoo
         THEN <<path, EXT_HOST \o <<"libfoo", ".git">>, EXT_HOST>>
         ELSE IF url = Ffmpeg
         THEN <<path, EXT_HOST \o <<"ffmpeg", ".git">>, EXT_HOST>>
         ELSE IF url = RefChrome
         THEN <<None, None, EXT_HOST>>
         ELSE IF url = WebKitSource
         THEN <<WebKitPath, EXT_HOST \o <<"webkit", ".git">>, EXT_HOST>>
         ELSE <<>>
    ELSE IF url = LibFoo
         THEN <<path, EXT_HOST \o <<"libfoo", ".git">>, EXT_HOST, <<"1500">>>>
         ELSE IF url = Unknown
         THEN <<path, EXT_HOST \o <<"unknown", ".git">>, OTHER_HOST>>
         ELSE <<>>

ExtraOverrides(rules) ==
    IF rules = "rules_a"
    THEN [p \in {Foo, WebKitPath} |->
             IF p = Foo THEN <<"foo_rev">> ELSE <<"webkit_hash">>]
    ELSE [p \in {FfmpegPath} |-> <<"ffmpeg_rev">>]

\* The 'vars' of the SVN DEPS file
SvnDepsVars ==
    { [v \in {} |-> <<>>],
      [v \in {<<"ffmpeg_hash">>, <<"foo_rev">>, <<"webkit_hash">>} |->
          <<"@", "@", "abc123">>],
      [v \in {<<"ffmpeg_hash">>} |-> <<"abc123">>] }

\* The directories of the repositories, before the run
DiskStates == {"absent", "empty", "stale", "ok", "interrupted"}

VARIABLES
    \* the inputs of the run
    deps,              \* the 'deps' section read from the DEPS file
    deps_os,           \* its 'deps_os' section: os name -> section
    svn_deps_vars,     \* its 'vars'
    options,           \* the parsed command line
    gclient,           \* the .gclient of the workspace (present, target_os, cache_dir)
    disk0,             \* the state of a repository directory before the run
    \* main
    pc, err, exit_status,
    deps_vars, svn_to_git_objs, deps_overrides,
    target_os,         \* the OS sections main keeps
    sec,               \* the section being converted: "", "deps" or an OS name
    out_deps, out_deps_os, baddeps,
    json_file, deps_file,
    \* ConvertDepsToGit
    new_deps, bad_git_urls, deps_to_process,
    todo,              \* what the running for loop has not visited yet
    cur,               \* the dep of the third loop
    try_index, delay, success,
    \* the pre-cache pool and the repositories on disk
    tasks, queue, num_threads, disk, tries,
    \* what happened, for the properties
    consulted,         \* dep -> the rule sets asked for it, in order
    pings, sleeps,     \* the pings and the sleeps of the current dep
    svnrev_calls,      \* the (section, dep) SvnRevToGitHash was called for
    sec_bad,           \* section -> the bad_git_urls its conversion returned
    ops                \* the clones and deletes issued, with the state found

inputs == <<deps, deps_os, svn_deps_vars, options, gclient, disk0>>
mainv == <<deps_vars, svn_to_git_objs, deps_overrides, target_os, sec,
           out_deps, out_deps_os, baddeps, json_file, deps_file>>
convv == <<new_deps, bad_git_urls, deps_to_process, todo, cur>>
pingv == <<try_index, delay, success, pings, sleeps>>
poolv == <<tasks, queue, num_threads>>
mirrv == <<disk, tries, ops>>
histv == <<consulted, svnrev_calls, sec_bad>>
vars == <<inputs, pc, err, exit_status, mainv, convv, pingv, poolv, mirrv, histv>>

Empty == [k \in {} |-> <<>>]
Put(f, k, v) == [x \in DOMAIN f \cup {k} |-> IF x = k THEN v ELSE f[x]]

(* ------------------------------------------------------------------ *)
(* The bounded inputs                                                 *)
(* ------------------------------------------------------------------ *)
NoGclient ==
    [present |-> FALSE, target_os |-> {}, target_os_only |-> FALSE,
     cache_dir |-> FALSE]

Opt(verify, json, mode, rules) ==
    [verify |-> verify, json |-> json, out |-> TRUE,
     repos |-> mode = "repos", cache_dir |-> mode = "cache_dir",
     workspace |-> mode = "workspace", extra_rules |-> rules]

Input(d, o, v, op, g, k) ==
    [deps |-> d, deps_os |-> o, svn_deps_vars |-> v, options |-> op,
     gclient |-> g, disk0 |-> k]

OsSections(m, n) ==
    {Empty} \cup {[os \in {"win"} |-> s] : s \in Sections(m, n) \ {Empty}}

\* Translation and variables: every manifest, no repository directory
RuleInputs ==
    { Input(d, o, v, Opt(FALSE, FALSE, "", r), NoGclient, "absent") :
        d \in Sections(Menu, MaxDeps), o \in OsSections(OsMenu, MaxOsDeps),
        v \in SvnDepsVars, r \in {"", "rules_a", "rules_b"} }

\* Verification: the pings of one or two entries per section
VerifyMenu ==
    { <<Foo, At(RepoGit, <<"deadbeef">>)>>, <<Bar, At(LibFoo, <<"1234">>)>>,
      <<AnglePath, RepoGit>> }

VerifyInputs ==
    { Input(d, o, [v \in {} |-> <<>>], Opt(TRUE, j, "", "rules_b"),
            NoGclient, "absent") :
        d \in Sections(VerifyMenu, MaxDeps),
        o \in OsSections({<<Foo, At(RepoGit, <<"deadbeef">>)>>}, MaxOsDeps),
        j \in BOOLEAN }

\* Repositories: every kind of directory, in every state
MirrorMenu ==
    { <<Foo, At(LibFoo, <<"1234">>)>>, <<Foo, At(RepoGit, <<"deadbeef">>)>>,
      <<Bar, At(LibFoo, <<"1234">>)>>,
      <<AnglePath, At(RepoGit, <<"deadbeef">>)>> }

Gclients(mode) ==
    IF mode = "workspace"
    THEN {NoGclient} \cup
         {[present |-> TRUE, target_os |-> t, target_os_only |-> FALSE,
           cache_dir |-> c] :
             t \in {{}, {"win"}, {"all"}}, c \in BOOLEAN}
    ELSE {NoGclient}

MirrorInputs ==
    UNION { { Input(d, o, [v \in {} |-> <<>>], Opt(vf, FALSE, m, r), g, k) :
                g \in Gclients(m) } :
        d \in Sections(MirrorMenu, MaxDeps),
        o \in OsSections({<<Bar, At(LibFoo, <<"1234">>)>>,
                          <<Foo, At(Unknown, <<"1">>)>>}, MaxOsDeps),
        vf \in {FALSE}, m \in {"repos", "cache_dir", "workspace"},
        r \in {"rules_a", "rules_b"}, k \in DiskStates }

\* Verification with a cache: the pool, then the pings and the searches
BarrierInputs ==
    { Input(d, Empty, [v \in {} |-> <<>>], Opt(TRUE, FALSE, "cache_dir", "rules_b"),
            NoGclient, "absent") :
        d \in Sections({<<Foo, At(RepoGit, <<"deadbeef">>)>>,
                        <<Bar, At(LibFoo, <<"1234">>)>>}, MaxDeps) }

\* The end of main: with and without -o, --json and --verify
OutputInputs ==
    { Input(d, Empty, [v \in {} |-> <<>>],
            [Opt(vf, j, "", "") EXCEPT !.out = o], NoGclient, "absent") :
        d \in Sections({<<Foo, At(RepoGit, <<"deadbeef">>)>>}, MaxDeps),
        vf \in BOOLEAN, j \in BOOLEAN, o \in BOOLEAN }

Inputs ==
    RuleInputs \cup VerifyInputs \cup MirrorInputs \cup BarrierInputs
        \cup OutputInputs

Init ==
    /\ \E i \in Inputs :
         /\ deps = i.deps /\ deps_os = i.deps_os
         /\ svn_deps_vars = i.svn_deps_vars /\ options = i.options
         /\ gclient = i.gclient /\ disk0 = i.disk0
    /\ pc = "main" /\ err = "" /\ exit_status = -1
    /\ deps_vars = Empty /\ svn_to_git_objs = <<>> /\ deps_overrides = Empty
    /\ target_os = {} /\ sec = ""
    /\ out_deps = Empty /\ out_deps_os = Empty /\ baddeps = {}
    /\ json_file = FALSE /\ deps_file = FALSE
    /\ new_deps = Empty /\ bad_git_urls = {} /\ deps_to_process = Empty
    /\ todo = {} /\ cur = None
    /\ try_index = 0 /\ delay = 0 /\ success = FALSE
    /\ tasks = Empty /\ queue = 0 /\ num_threads = 0
    /\ disk = Empty /\ tries = 0
    /\ consulted = Empty /\ pings = 0 /\ sleeps = <<>>
    /\ svnrev_calls = {} /\ sec_bad = Empty /\ ops = {}

\* An exception that nothing catches: main ends with a traceback
Raise(e) == pc' = "fatal" /\ err' = e /\ exit_status' = 1

(* ------------------------------------------------------------------ *)
(* main, up to the conversion                                         *)
(* ------------------------------------------------------------------ *)
sys_platform == "linux2"

DEPS_OS_CHOICES ==
    [p \in {"win32", "win", "cygwin", "darwin", "mac", "unix", "linux",
            "linux2", "linux3", "android"} |->
        IF p \in {"win32", "win", "cygwin"} THEN "win"
        ELSE IF p \in {"darwin", "mac"} THEN "mac"
        ELSE IF p = "android" THEN "android" ELSE "unix"]

\* The OS sections kept when the workspace has a .gclient
TargetOs ==
    LET t0 == gclient.target_os
        t1 == IF t0 = {} \/ ~gclient.target_os_only
              THEN t0 \cup {IF sys_platform \in DOMAIN DEPS_OS_CHOICES
                            THEN DEPS_OS_CHOICES[sys_platform] ELSE "unix"}
              ELSE t0
    IN  IF options.workspace /\ gclient.present /\ "all" \notin t1
        THEN {k \in DOMAIN deps_os : k \in t1}
        ELSE DOMAIN deps_os

\* lines 327-328: options.cache_dir, set from the .gclient when -c is not given
CacheDir ==
    \/ options.cache_dir
    \/ options.workspace /\ gclient.present /\ gclient.cache_dir

\* DEPS_OVERRIDES of svn_to_git_public, updated with those of the rule file
MergedOverrides ==
    IF options.extra_rules = "" THEN DEPS_OVERRIDES
    ELSE LET x == ExtraOverrides(options.extra_rules)
         IN  [p \in DOMAIN DEPS_OVERRIDES \cup DOMAIN x |->
                 IF p \in DOMAIN x THEN x[p] ELSE DEPS_OVERRIDES[p]]

\* The rule file appended to the list: svn_to_git_public is asked first
RuleSetsAppended ==
    IF options.extra_rules = "" THEN <<"svn_to_git_public">>
    ELSE <<"svn_to_git_public", options.extra_rules>>

\* The rule sets, in the order ConvertDepsToGit asks them
RuleSets ==
    IF options.extra_rules = "" THEN <<"svn_to_git_public">>
    ELSE <<options.extra_rules, "svn_to_git_public">>

MainSetup ==
    /\ pc = "main"
    /\ deps_vars' = [k \in {<<"git_url">>, <<"webkit_url">>} |->
          IF k = <<"git_url">> THEN <<"https://", "chromium.googlesource.com">>
          ELSE <<"https://", "chromium.googlesource.com">>
                   \o <<"/", "chromium", "/", "blink", ".git">>]
    /\ svn_to_git_objs' = RuleSets
    /\ deps_overrides' = MergedOverrides
    /\ target_os' = TargetOs
    /\ pc' = "convert"
    /\ UNCHANGED <<inputs, err, exit_status, sec, out_deps, out_deps_os, baddeps,
                   json_file, deps_file, convv, pingv, poolv, mirrv, histv>>

(* ------------------------------------------------------------------ *)
(* ConvertDepsToGit: the first loop                                   *)
(* ------------------------------------------------------------------ *)
Section(s) == IF s = "deps" THEN deps ELSE deps_os[s]

\* The OS sections main has not converted yet
Pending == {os \in target_os : os \notin DOMAIN out_deps_os}

ConvertStart ==
    /\ pc = "convert"
    /\ \E s \in (IF sec = "" THEN {"deps"} ELSE Pending) :
         /\ sec' = s
         /\ todo' = DOMAIN Section(s)
    /\ new_deps' = Empty /\ bad_git_urls' = {} /\ deps_to_process' = Empty
    /\ consulted' = Empty
    /\ pc' = "populate"
    /\ UNCHANGED <<inputs, err, exit_status, deps_vars, svn_to_git_objs,
                   deps_overrides, target_os, out_deps, out_deps_os, baddeps,
                   json_file, deps_file, cur, pingv, poolv, mirrv, svnrev_calls,
                   sec_bad>>

RuleSet(obj, path, url) ==
    IF obj = "svn_to_git_public" THEN SvnUrlToGitUrl(path, url)
    ELSE ExtraRules(obj, path, url)

\* The for loop over svn_to_git_objs: the rule sets asked, first to last
RECURSIVE Asked(_, _, _)
Asked(objs, dep, dep_url) ==
    IF objs = <<>> THEN <<>>
    ELSE IF Len(RuleSet(Head(objs), dep, dep_url)) > 0 THEN <<Head(objs)>>
    ELSE <<Head(objs)>> \o Asked(Tail(objs), dep, dep_url)

\* A URL no rule set matches goes through as it is
ConvertedOrPassedThrough(objs, dep, dep_url) ==
    LET first == {i \in 1..Len(objs) : Len(RuleSet(objs[i], dep, dep_url)) > 0}
    IN  IF first = {} THEN <<dep, dep_url, dep_url>>
        ELSE RuleSet(objs[CHOOSE i \in first : \A j \in first : i <= j],
                     dep, dep_url)

\* converted_data when the loop ends: <<>> when it ends without a break
RECURSIVE Converted(_, _, _)
Converted(objs, dep, dep_url) ==
    IF objs = <<>> THEN <<>>
    ELSE LET converted_data == RuleSet(Head(objs), dep, dep_url)
         IN  IF Len(converted_data) > 0 THEN converted_data
             ELSE Converted(Tail(objs), dep, dep_url)

Job(git_url, dep_url, path, git_host, dep_rev, svn_branch) ==
    [git_url |-> git_url, dep_url |-> dep_url, path |-> path,
     git_host |-> git_host, dep_rev |-> dep_rev, svn_branch |-> svn_branch]

Populate ==
    /\ pc = "populate"
    /\ \E dep \in todo :
         LET loc == Section(sec)[dep]
             split == SplitScmUrl(loc)
             dep_url == split[1]
             dep_rev == split[2]
             cd == Converted(svn_to_git_objs, dep, dep_url)
         IN
         /\ todo' = todo \ {dep}
         /\ IF Falsy(loc)
            THEN /\ new_deps' = Put(new_deps, dep, None)
                 /\ UNCHANGED <<pc, err, exit_status, deps_to_process, consulted>>
            ELSE IF EndsWith(dep_url, <<".git">>)
            THEN /\ deps_to_process' = Put(deps_to_process, dep,
                        Job(dep_url, dep_url, dep, dep_url, dep_rev, None))
                 /\ UNCHANGED <<pc, err, exit_status, new_deps, consulted>>
            ELSE /\ consulted' = Put(consulted, dep,
                                     Asked(svn_to_git_objs, dep, dep_url))
                 /\ IF Len(cd) = 0
                    THEN /\ Raise("No match found")
                         /\ UNCHANGED <<new_deps, deps_to_process>>
                    ELSE IF Len(cd) < 3
                    THEN /\ Raise("ValueError")
                         /\ UNCHANGED <<new_deps, deps_to_process>>
                    ELSE /\ deps_to_process' = Put(deps_to_process, dep,
                                Job(cd[2], dep_url, cd[1], cd[3], dep_rev,
                                    IF Len(cd) > 3 THEN cd[4] ELSE None))
                         /\ UNCHANGED <<pc, err, exit_status, new_deps>>
    /\ UNCHANGED <<inputs, mainv, bad_git_urls, cur, pingv, poolv, mirrv,
                   svnrev_calls, sec_bad>>

(* ------------------------------------------------------------------ *)
(* git_tools: the repositories on disk                                *)
(* ------------------------------------------------------------------ *)
DiskState(d) == IF d \in DOMAIN disk THEN disk[d] ELSE disk0

\* git_tools.GetCacheRepoDir: the directory of a URL under the cache
GetCacheRepoDir(git_url) == <<"cache_dir", "/">> \o Str(git_url)

\* What a clone leaves behind: a repository, or one cut short in transfer
CloneResults == {"ok", "interrupted"}

Op(op, d) == [op |-> op, dir |-> d, found |-> DiskState(d)]

\* git_tools.Clone of a bare mirror under the cache: clone, or fetch what is there
CloneBareOps(d) ==
    IF DiskState(d) \in {"absent", "empty"} THEN {Op("clone", d)}
    ELSE {Op("fetch", d)}

CloneBareDisk(d, result) ==
    IF DiskState(d) \in {"absent", "empty"} THEN Put(disk, d, result) ELSE disk

\* The commit git_tools.Search finds for a revision
Commit(svn_rev) == <<"commit-of-r">> \o svn_rev

\* git_tools.Search retries once, after a delete and a clone, when the
\* transfer of a bare mirror was cut short
SearchRetries(mirror, state, n) ==
    mirror = "bare" /\ state = "interrupted" /\ n < 2

(* ------------------------------------------------------------------ *)
(* ConvertDepsToGit: the pre-cache pool                               *)
(* ------------------------------------------------------------------ *)
BeginProcess ==
    /\ pc = "populate" /\ todo = {}
    /\ ~CacheDir
    /\ pc' = "process"
    /\ todo' = DOMAIN deps_to_process
    /\ UNCHANGED <<inputs, err, exit_status, mainv, new_deps, bad_git_urls,
                   deps_to_process, cur, pingv, poolv, mirrv, histv>>

\* pool.apply_async for every job, then pool.close()
PoolTasks ==
    [dep \in DOMAIN deps_to_process |->
        [git_url |-> deps_to_process[dep].git_url, st |-> "queued"]]

PrecacheStart ==
    /\ pc = "populate" /\ todo = {}
    /\ CacheDir
    /\ IF DOMAIN deps_to_process = {}
       THEN /\ Raise("ValueError")
            /\ UNCHANGED poolv
       ELSE /\ tasks' = PoolTasks
            /\ num_threads' = Cardinality(DOMAIN deps_to_process)
            /\ queue' = 0
            /\ pc' = "stream"
            /\ UNCHANGED <<err, exit_status>>
    /\ UNCHANGED <<inputs, mainv, convv, pingv, mirrv, histv>>

WorkerStart ==
    /\ pc = "stream"
    /\ \E t \in DOMAIN tasks :
         /\ tasks[t].st = "queued"
         /\ tasks' = [tasks EXCEPT ![t].st = "running"]
    /\ UNCHANGED <<inputs, pc, err, exit_status, mainv, convv, pingv, queue,
                   num_threads, mirrv, histv>>

WorkerFinish ==
    /\ pc = "stream"
    /\ \E t \in DOMAIN tasks, result \in CloneResults :
         LET d == GetCacheRepoDir(tasks[t].git_url) IN
         /\ tasks[t].st = "running"
         /\ tasks' = [tasks EXCEPT ![t].st = "done"]
         /\ disk' = CloneBareDisk(d, result)
         /\ ops' = ops \cup CloneBareOps(d)
         /\ queue' = queue + 1
    /\ UNCHANGED <<inputs, pc, err, exit_status, mainv, convv, pingv,
                   num_threads, tries, histv>>

\* output_queue.get returns the None a finished task has put
StreamGet ==
    /\ pc = "stream" /\ num_threads > 0 /\ queue > 0
    /\ queue' = queue - 1
    /\ num_threads' = num_threads - 1
    /\ UNCHANGED <<inputs, pc, err, exit_status, mainv, convv, pingv, tasks,
                   mirrv, histv>>

\* The third loop started without waiting for the pool
JoinWithoutWaiting ==
    /\ pc = "stream"
    /\ pc' = "process"
    /\ todo' = DOMAIN deps_to_process
    /\ UNCHANGED <<inputs, err, exit_status, mainv, new_deps, bad_git_urls,
                   deps_to_process, cur, pingv, poolv, mirrv, histv>>

Join ==
    /\ pc = "stream" /\ num_threads = 0
    /\ \A t \in DOMAIN tasks : tasks[t].st = "done"
    /\ pc' = "process"
    /\ todo' = DOMAIN deps_to_process
    /\ UNCHANGED <<inputs, err, exit_status, mainv, new_deps, bad_git_urls,
                   deps_to_process, cur, pingv, poolv, mirrv, histv>>

(* ------------------------------------------------------------------ *)
(* ConvertDepsToGit: the third loop                                   *)
(* ------------------------------------------------------------------ *)
MaxTries == 5
InitialDelay == 500     \* milliseconds

NextEntry ==
    /\ pc = "process"
    /\ \E dep \in todo :
         /\ cur' = dep
         /\ todo' = todo \ {dep}
    /\ IF options.verify
       THEN /\ pc' = "ping"
            /\ try_index' = 1 /\ delay' = InitialDelay /\ success' = FALSE
            /\ pings' = 0 /\ sleeps' = <<>>
       ELSE /\ pc' = "resolve"
            /\ UNCHANGED pingv
    /\ UNCHANGED <<inputs, err, exit_status, mainv, new_deps, bad_git_urls,
                   deps_to_process, poolv, mirrv, histv>>

\* A delay that grows by the first delay instead of doubling
NextDelayLinear(d) == d + InitialDelay

\* line 195: delay *= 2
NextDelay(d) == d * 2

\* One pass of the verify loop; ok is what git_tools.Ping answers
Ping ==
    /\ pc = "ping"
    /\ \E ok \in BOOLEAN :
         /\ pings' = pings + 1
         /\ IF ok
            THEN /\ success' = TRUE
                 /\ pc' = "resolve"
                 /\ UNCHANGED <<try_index, delay, sleeps, bad_git_urls>>
            ELSE /\ sleeps' = Append(sleeps, delay)
                 /\ delay' = NextDelay(delay)
                 /\ UNCHANGED success
                 /\ IF try_index < MaxTries
                    THEN /\ try_index' = try_index + 1
                         /\ UNCHANGED <<pc, bad_git_urls>>
                    ELSE /\ bad_git_urls' =
                              bad_git_urls \cup {deps_to_process[cur].git_url}
                         /\ pc' = "resolve"
                         /\ UNCHANGED try_index
    /\ UNCHANGED <<inputs, err, exit_status, mainv, new_deps, deps_to_process,
                   todo, cur, poolv, mirrv, histv>>

VARIFY_MARKER_TAG_PREFIX == <<"VARIFY_MARKER_TAG">>

\* lines 222-233: the variables of WebKit and of angle
WithWebkit(dep, dep_rev, git_hash, dv) ==
    IF dep = WebKitPath /\ ~Falsy(dep_rev)
    THEN [hash |-> <<"VAR_WEBKIT_REV">>, vars |-> Put(dv, <<"webkit_rev">>, git_hash)]
    ELSE [hash |-> git_hash, vars |-> dv]

WithAngle(dep, r) ==
    IF dep = AnglePath /\ r.hash # <<>>
    THEN [hash |-> <<"VAR_ANGLE_REVISION">>,
          vars |-> Put(r.vars, <<"angle_revision">>, Tail(r.hash))]
    ELSE r

\* The value with an '@' put in front and nothing stripped
OverrideValueNoStrip(v) == <<"@">> \o svn_deps_vars[v]

\* lines 207-208: the value of an override variable, taken from the SVN DEPS
OverrideValue(v) == <<"@">> \o LStrip(svn_deps_vars[v], "@")

\* The end of a pass of the loop, from line 222 on
AddDep(git_hash, dv) ==
    LET job == deps_to_process[cur]
        r == WithAngle(cur, WithWebkit(cur, job.dep_rev, git_hash, dv))
    IN  /\ deps_vars' = r.vars
        /\ new_deps' = Put(new_deps, job.path, Str(job.git_url) \o r.hash)
        /\ pc' = "process"

\* The directory SvnRevToGitHash works in
MirrorKind ==
    IF options.repos THEN "mirror"
    ELSE IF CacheDir THEN "bare" ELSE "checkout"

RepoPath(job) ==
    IF options.repos
    THEN <<"repos", "/">> \o Replace(job.git_url, job.git_host, <<>>)
    ELSE IF CacheDir THEN GetCacheRepoDir(job.git_url)
    ELSE <<"workspace", "/">> \o job.path

\* A clone before every search, whatever the directory holds
PrepareAlwaysClone(job, result) ==
    <<{Op("clone", RepoPath(job))}, result>>

\* lines 63-87: the deletes and clones before the search, as
\* <<ops issued, directory state at the search>>, given what a clone leaves
Prepare(job, result) ==
    LET d == RepoPath(job)
        st == DiskState(d)
    IN  IF options.repos
        THEN IF st \in {"absent", "empty"}
             THEN <<{Op("clone", d)}, result>> ELSE <<{}, st>>
        ELSE IF CacheDir
        THEN <<CloneBareOps(d),
               IF st \in {"absent", "empty"} THEN result ELSE st>>
        ELSE IF st \in {"empty", "stale"}
             THEN <<{Op("delete", d), [op |-> "clone", dir |-> d, found |-> "absent"]},
                    result>>
             ELSE IF st = "absent"
             THEN <<{Op("clone", d)}, result>> ELSE <<{}, st>>

Resolve ==
    /\ pc = "resolve"
    /\ LET job == deps_to_process[cur]
           over == deps_overrides[cur]
       IN
       IF job.dep_rev = HEAD
       THEN /\ AddDep(<<>>, deps_vars)
            /\ UNCHANGED <<err, exit_status, mirrv, svnrev_calls>>
       ELSE IF cur \in DOMAIN deps_overrides
       THEN IF over \notin DOMAIN svn_deps_vars
            THEN /\ Raise("Missing DEPS variable")
                 /\ UNCHANGED <<deps_vars, new_deps, mirrv, svnrev_calls>>
            ELSE /\ AddDep(VARIFY_MARKER_TAG_PREFIX \o <<"_">> \o over,
                           Put(deps_vars, over, OverrideValue(over)))
                 /\ UNCHANGED <<err, exit_status, mirrv, svnrev_calls>>
       ELSE IF EndsWith(job.dep_url, <<".git">>)
       THEN /\ AddDep(<<"@">> \o job.dep_rev, deps_vars)
            /\ UNCHANGED <<err, exit_status, mirrv, svnrev_calls>>
       ELSE /\ svnrev_calls' = svnrev_calls \cup {<<sec, cur>>}
            /\ IF job.git_url = None \/ job.git_host = None
               THEN /\ Raise("AttributeError")
                    /\ UNCHANGED <<deps_vars, new_deps, mirrv>>
               ELSE IF ~StartsWith(job.git_url, job.git_host)
               THEN /\ Raise("Unknown git server")
                    /\ UNCHANGED <<deps_vars, new_deps, mirrv>>
               ELSE IF ~(options.repos \/ options.workspace \/ CacheDir)
               THEN /\ AddDep(<<"@", "xxx-r">> \o job.dep_rev, deps_vars)
                    /\ UNCHANGED <<err, exit_status, mirrv>>
               ELSE IF MirrorKind = "checkout" /\ job.path = None
               THEN /\ Raise("AttributeError")
                    /\ UNCHANGED <<deps_vars, new_deps, mirrv>>
               ELSE \E result \in CloneResults :
                      LET prep == Prepare(job, result) IN
                      /\ ops' = ops \cup prep[1]
                      /\ disk' = Put(disk, RepoPath(job), prep[2])
                      /\ tries' = 0
                      /\ pc' = "search"
                      /\ UNCHANGED <<err, exit_status, deps_vars, new_deps>>
    /\ UNCHANGED <<inputs, svn_to_git_objs, deps_overrides, target_os, sec,
                   out_deps, out_deps_os, baddeps, json_file, deps_file,
                   bad_git_urls, deps_to_process, todo, cur, pingv, poolv,
                   consulted, sec_bad>>

\* A handler that swallows the exception and searches again
ExceptHandlerRetry(e) == [pc |-> "search", err |-> "", exit_status |-> -1]

\* lines 104-106: the handler prints and raises again
ExceptHandler(e) == [pc |-> "fatal", err |-> e, exit_status |-> 1]

\* git_tools.Search finds the commit
SearchReturn ==
    /\ pc = "search"
    /\ LET job == deps_to_process[cur] IN
       /\ DiskState(RepoPath(job)) = "ok"
       /\ tries' = tries + 1
       /\ AddDep(<<"@">> \o Commit(job.dep_rev), deps_vars)
    /\ UNCHANGED <<inputs, err, exit_status, svn_to_git_objs, deps_overrides,
                   target_os, sec, out_deps, out_deps_os, baddeps, json_file,
                   deps_file, bad_git_urls, deps_to_process, todo, cur, pingv,
                   poolv, disk, ops, histv>>

\* git_tools.Search fails: on a mirror cut short with AbnormalExit, and on
\* any directory because the revision is not found
SearchRaise ==
    /\ pc = "search"
    /\ LET d == RepoPath(deps_to_process[cur])
           st == DiskState(d)
       IN
       /\ tries' = tries + 1
       /\ IF SearchRetries(MirrorKind, st, tries + 1)
          THEN \E result \in CloneResults :
                 /\ ops' = ops \cup {Op("delete", d),
                                     [op |-> "clone", dir |-> d, found |-> "absent"]}
                 /\ disk' = Put(disk, d, result)
                 /\ UNCHANGED <<pc, err, exit_status>>
          ELSE LET h == ExceptHandler(IF st = "interrupted" THEN "AbnormalExit"
                                      ELSE "SearchError")
               IN  /\ pc' = h.pc /\ err' = h.err /\ exit_status' = h.exit_status
                   /\ UNCHANGED <<disk, ops>>
    /\ UNCHANGED <<inputs, mainv, convv, pingv, poolv, histv>>

\* The failed set of the last section alone
MergeBadOverwrite(bad, os_bad_deps) == os_bad_deps

\* line 337: baddeps.union(os_bad_deps)
MergeBad(bad, os_bad_deps) == bad \cup os_bad_deps

\* return new_deps, bad_git_urls, and the assignments of main
Return ==
    /\ pc = "process" /\ todo = {}
    /\ IF sec = "deps"
       THEN /\ out_deps' = new_deps
            /\ baddeps' = bad_git_urls
            /\ UNCHANGED out_deps_os
       ELSE /\ out_deps_os' = Put(out_deps_os, sec, new_deps)
            /\ baddeps' = MergeBad(baddeps, bad_git_urls)
            /\ UNCHANGED out_deps
    /\ sec_bad' = Put(sec_bad, sec, bad_git_urls)
    /\ pc' = IF Pending \ {sec} = {} THEN "report" ELSE "convert"
    /\ UNCHANGED <<inputs, err, exit_status, deps_vars, svn_to_git_objs,
                   deps_overrides, target_os, sec, json_file, deps_file, convv,
                   pingv, poolv, mirrv, consulted, svnrev_calls>>

(* ------------------------------------------------------------------ *)
(* main, after the conversion                                         *)
(* ------------------------------------------------------------------ *)
Report ==
    /\ pc = "report"
    /\ json_file' = options.json
    /\ IF baddeps # {}
       THEN /\ exit_status' = 2 /\ pc' = "done"
            /\ UNCHANGED <<err, deps_file>>
       ELSE IF options.verify
       THEN /\ exit_status' = 0 /\ pc' = "done"
            /\ UNCHANGED <<err, deps_file>>
       ELSE IF ~options.out
       THEN /\ Raise("TypeError")
            /\ UNCHANGED deps_file
       ELSE /\ deps_file' = TRUE
            /\ exit_status' = 0 /\ pc' = "done"
            /\ UNCHANGED err
    /\ UNCHANGED <<inputs, deps_vars, svn_to_git_objs, deps_overrides, target_os,
                   sec, out_deps, out_deps_os, baddeps, convv, pingv, poolv,
                   mirrv, histv>>

Next ==
    \/ MainSetup \/ ConvertStart \/ Populate
    \/ BeginProcess \/ PrecacheStart \/ WorkerStart \/ WorkerFinish
    \/ StreamGet \/ Join
    \/ NextEntry \/ Ping \/ Resolve \/ SearchReturn \/ SearchRaise
    \/ Return \/ Report

Spec == Init /\ [][Next]_vars

(* ------------------------------------------------------------------ *)
(* Properties                                                         *)
(* ------------------------------------------------------------------ *)
IsGit(url) == EndsWith(url, <<".git">>)

\* What the rule file and the built-in rule set answer for a legacy URL
ExtraAnswer(dep, url) ==
    IF options.extra_rules = "" THEN <<>>
    ELSE ExtraRules(options.extra_rules, dep, url)

PublicAnswer(dep, url) == SvnUrlToGitUrl(dep, url)

Unmatched(s) ==
    \E dep \in DOMAIN s :
        /\ ~Falsy(s[dep])
        /\ LET url == SplitScmUrl(s[dep])[1] IN
           /\ ~IsGit(url)
           /\ Len(ExtraAnswer(dep, url)) = 0
           /\ Len(PublicAnswer(dep, url)) = 0

Completed == pc \in {"report", "done"}

ConvertedOs ==
    IF options.workspace /\ gclient.present
           /\ "all" \notin gclient.target_os
           /\ (gclient.target_os_only => gclient.target_os = {})
    THEN {os \in DOMAIN deps_os : os \in gclient.target_os \cup {"unix"}}
    ELSE IF options.workspace /\ gclient.present /\ "all" \notin gclient.target_os
    THEN {os \in DOMAIN deps_os : os \in gclient.target_os}
    ELSE DOMAIN deps_os

Excluded(s, dep) ==
    /\ ~Falsy(s[dep])
    /\ LET url == SplitScmUrl(s[dep])[1]
           e == ExtraAnswer(dep, url)
           first == IF Len(e) > 0 THEN e ELSE PublicAnswer(dep, url)
       IN  ~IsGit(url) /\ Len(first) >= 2 /\ first[1] = None /\ first[2] = None

\* The sections ConvertDepsToGit has returned
Returned == [s \in DOMAIN sec_bad |-> IF s = "deps" THEN out_deps ELSE out_deps_os[s]]

\* C3: a section ConvertDepsToGit returns has no entry for an excluded
\* dependency: not under its path, not under a null path, not with a null URL.
C3_ExcludedDropped ==
    \A s \in DOMAIN Returned :
        \A dep \in DOMAIN Section(s) :
            Excluded(Section(s), dep) =>
                /\ dep \notin DOMAIN Returned[s]
                /\ None \notin DOMAIN Returned[s]
                /\ \A k \in DOMAIN Returned[s] :
                       Returned[s][k] = None \/ ~StartsWith(Returned[s][k], <<"None">>)

\* A location url or url@rev whose url ends in .git
GitForm(loc) ==
    \/ IsGit(loc)
    \/ \E i \in 1..Len(loc) :
          /\ loc[i] = "@"
          /\ IsGit(SubSeq(loc, 1, i - 1))
          /\ \A j \in (i + 1)..Len(loc) : loc[j] # "@"

SpecialPaths == {WebKitPath, AnglePath}

FastPathEntry(s, dep) ==
    /\ ~Falsy(s[dep])
    /\ GitForm(s[dep])
    /\ dep \notin DOMAIN MergedOverrides
    /\ dep \notin SpecialPaths

\* C4: for an entry url or url@rev with url ending in .git, off the override
\* map and off the two special paths, no rule set is asked, SvnRevToGitHash
\* is not called, and the section returned maps its path to its location.
C4_FastPath ==
    sec # "" =>
        \A dep \in DOMAIN Section(sec) :
            FastPathEntry(Section(sec), dep) =>
                /\ dep \notin DOMAIN consulted
                /\ <<sec, dep>> \notin svnrev_calls
                /\ sec \in DOMAIN Returned =>
                       /\ dep \in DOMAIN Returned[sec]
                       /\ Returned[sec][dep] = Section(sec)[dep]

\* An entry on the override-variable path is about to be resolved
OnOverridePath ==
    /\ pc = "resolve"
    /\ deps_to_process[cur].dep_rev # HEAD
    /\ cur \in DOMAIN deps_overrides

\* What C5 says of the step that resolves such an entry
OverrideEffect ==
    LET job == deps_to_process[cur]
        v == deps_overrides[cur]
    IN  IF v \notin DOMAIN svn_deps_vars
        THEN pc' = "fatal" /\ new_deps' = new_deps /\ deps_vars' = deps_vars
        ELSE /\ pc' = "process"
             /\ v \in DOMAIN deps_vars'
             /\ Head(deps_vars'[v]) = "@"
             /\ Tail(deps_vars'[v]) = LStrip(svn_deps_vars[v], "@")
             /\ job.path \in DOMAIN new_deps'
             /\ new_deps'[job.path] =
                    Str(job.git_url) \o VARIFY_MARKER_TAG_PREFIX \o <<"_">> \o v
             /\ svnrev_calls' = svnrev_calls
             /\ ops' = ops /\ disk' = disk

Verifying == options.verify /\ pc \in {"ping", "resolve"}

PingState ==
    Verifying =>
        /\ pings <= MaxTries
        /\ pc = "ping" => ~success /\ pings < MaxTries
        /\ pc = "resolve" => pings >= 1 /\ (success \/ pings = MaxTries)
        /\ Len(sleeps) = IF success THEN pings - 1 ELSE pings
        /\ \A k \in 1..Len(sleeps) : sleeps[k] = InitialDelay * 2 ^ (k - 1)

PingStep ==
    pc = "ping" =>
        /\ pings' = pings + 1
        /\ bad_git_urls' =
               IF ~success' /\ pings' = MaxTries
               THEN bad_git_urls \cup {deps_to_process[cur].git_url}
               ELSE bad_git_urls

\* C6: with --verify every processed entry is pinged once at least and five
\* times at most, never again after a ping that succeeds; the k-th failed ping
\* is followed by a sleep of 0.5 * 2^(k-1) seconds; and the URL joins
\* bad_git_urls exactly when the fifth ping has failed too.
C6_PingPolicy == []PingState /\ [][PingStep]_vars

\* Five pings have failed: the sleeps were 0.5, 1, 2, 4, 8 s and the URL is bad
C6_Witness ==
    /\ Verifying /\ pc = "resolve"
    /\ pings = MaxTries /\ ~success
    /\ sleeps = <<500, 1000, 2000, 4000, 8000>>
    /\ deps_to_process[cur].git_url \in bad_git_urls

\* The location ConvertDepsToGit gives an entry, a function of the manifest,
\* of the rules and of the options alone
TranslatedEntry(dep, loc) ==
    LET split == SplitScmUrl(loc)
        url == split[1]
        rev == split[2]
        cd == IF IsGit(url) THEN <<dep, url, url>>
              ELSE Converted(RuleSets, dep, url)
        git_hash == IF rev = HEAD THEN <<>>
                    ELSE IF dep \in DOMAIN MergedOverrides
                    THEN VARIFY_MARKER_TAG_PREFIX \o <<"_">> \o MergedOverrides[dep]
                    ELSE IF IsGit(url) THEN <<"@">> \o rev
                    ELSE IF ~(options.repos \/ options.workspace \/ CacheDir)
                    THEN <<"@", "xxx-r">> \o rev
                    ELSE <<"@">> \o Commit(rev)
        r == WithAngle(dep, WithWebkit(dep, rev, git_hash, Empty))
    IN  <<cd[1], Str(cd[2]) \o r.hash>>

\* The paths of the section ConvertDepsToGit returns for s, each with the
\* entry of s that gives it
Translated(s) ==
    LET t(dep) == IF Falsy(s[dep]) THEN <<dep, None>>
                  ELSE TranslatedEntry(dep, s[dep])
    IN  [p \in {t(dep)[1] : dep \in DOMAIN s} |->
            (CHOOSE dep \in DOMAIN s : t(dep)[1] = p) ]

\* A ping changes nothing of the conversion and never ends it
PingLeavesConversion ==
    pc = "ping" =>
        /\ pc' \in {"ping", "resolve"}
        /\ UNCHANGED <<new_deps, deps_to_process, todo, cur, deps_vars, sec,
                       out_deps, out_deps_os, err, exit_status>>

\* The sections of a finished --verify run are the translations of the
\* sections read, and the exit status is 2 when a section had a bad URL
VerifyOutcome ==
    pc = "done" =>
        /\ options.verify =>
              /\ DOMAIN Returned = {"deps"} \cup DOMAIN deps_os
              /\ \A s \in DOMAIN Returned :
                    LET t == Translated(Section(s)) IN
                    /\ DOMAIN Returned[s] = DOMAIN t
                    /\ \A p \in DOMAIN t :
                          Returned[s][p] =
                              IF Falsy(Section(s)[t[p]]) THEN None
                              ELSE TranslatedEntry(t[p], Section(s)[t[p]])[2]
        /\ exit_status =
               IF UNION {sec_bad[s] : s \in DOMAIN sec_bad} # {} THEN 2 ELSE 0

Reclone(d) ==
    {[op |-> "delete", dir |-> d, found |-> "interrupted"],
     [op |-> "clone", dir |-> d, found |-> "absent"]}

SearchStep ==
    pc = "search" =>
        LET d == RepoPath(deps_to_process[cur])
            cut == MirrorKind = "bare" /\ DiskState(d) = "interrupted"
        IN  /\ pc' \in {"search", "process", "fatal"}
            /\ tries' = tries + 1
            /\ (cut /\ tries = 0) => pc' = "search"
            /\ pc' = "search" =>
                  /\ cut /\ tries = 0
                  /\ ops' = ops \cup Reclone(d)
                  /\ disk'[d] \in CloneResults
            /\ pc' # "search" => ops' = ops /\ disk' = disk
            /\ (pc' = "fatal" /\ ~cut) => tries = 0 \/ DiskState(d) = "ok"

C10_OneTaskPerUrl ==
    \A t1, t2 \in DOMAIN tasks :
        (t1 # t2 /\ tasks[t1].st = "running" /\ tasks[t2].st = "running")
            => tasks[t1].git_url # tasks[t2].git_url

\* The pre-cache workers of the section that have not finished
Unfinished == {t \in DOMAIN tasks : tasks[t].st # "done"}

\* A ping is made, SvnRevToGitHash is called, or an entry is taken up
EntryStep ==
    \/ pings' # pings /\ pings' > 0
    \/ svnrev_calls' # svnrev_calls
    \/ cur' # cur
    \/ ops' # ops /\ pc # "stream"

\* C11: with a cache directory, the third loop runs only when every pre-cache
\* worker of the section has finished: no entry is taken up, no ping is made
\* and SvnRevToGitHash is not called while a worker is queued or running.
C11_Barrier ==
    /\ [](pc \in {"process", "ping", "resolve", "search"} => Unfinished = {})
    /\ [][EntryStep => Unfinished = {} /\ Unfinished' = {}]_vars

\* The first ping of a section is made, its two workers having finished
C11_Witness ==
    /\ CacheDir /\ options.verify
    /\ pc \in {"ping", "resolve"} /\ pings = 1
    /\ Cardinality(DOMAIN tasks) = 2 /\ Unfinished = {}
    /\ Cardinality({o \in ops : o.op = "clone"}) = 2

\* The path under which ConvertDepsToGit stores the entry of dep
OutPath(dep) ==
    IF dep \in DOMAIN deps_to_process THEN deps_to_process[dep].path ELSE dep

\* The entries of the section just returned that no rule set excludes
Kept == {dep \in DOMAIN Section(sec) : ~Excluded(Section(sec), dep)}

\* C12: the section returned has one entry for every input entry that is not
\* excluded: each has its entry, no two of them have the same output path
\* (a path a rule rewrites included), and there is no other entry.
C12_OneToOne ==
    sec \in DOMAIN Returned =>
        /\ \A dep \in Kept : OutPath(dep) \in DOMAIN Returned[sec]
        /\ \A d1, d2 \in Kept : d1 # d2 => OutPath(d1) # OutPath(d2)
        /\ Cardinality(DOMAIN Returned[sec] \ {None}) = Cardinality(Kept)

\* An entry at a special path that names no revision is about to be resolved
SpecialAtHead ==
    /\ pc = "resolve"
    /\ cur \in SpecialPaths
    /\ deps_to_process[cur].dep_rev = HEAD

\* The variables of the two special paths, as far as they are set
SpecialVars(dv) ==
    [k \in DOMAIN dv \cap {<<"webkit_rev">>, <<"angle_revision">>} |-> dv[k]]

\* C13: the step that resolves an entry at src/third_party/WebKit or
\* src/third_party/angle whose location names no revision leaves webkit_rev
\* and angle_revision as they are, unset if they were unset, and stores the
\* translated URL alone as the location.
C13_NoRevisionNoVariable ==
    [][SpecialAtHead =>
          /\ SpecialVars(deps_vars') = SpecialVars(deps_vars)
          /\ deps_to_process[cur].path \in DOMAIN new_deps'
          /\ new_deps'[deps_to_process[cur].path] =
                 Str(deps_to_process[cur].git_url)]_vars

\* ConvertDepsToGit has returned for the deps section and every OS section
ConversionEnded == pc \in {"report", "done", "fatal"} /\ sec \in DOMAIN sec_bad

\* main has returned or has ended with an exception
RunEnded == pc \in {"done", "fatal"}

====
